---- MODULE Spec2Model ----
(***************************************************************************)
(* State-machine model of the three variants of the instrumented order     *)
(* service:                                                                *)
(*   "main_go"  : 4_exposing_http_request_metric/golang-app/main.go        *)
(*                (request counter only, no signal handling)               *)
(*   "part_000" : unnamed/part_000 (adds the gauge job, a cancellable      *)
(*                context and signal.Notify)                               *)
(*   "part_001" : unnamed/part_001 (adds tracing, logging, summary and     *)
(*                histogram, and graceful shutdown)                        *)
(* One process "main", one background job goroutine, one server goroutine  *)
(* (part_001) and one goroutine per in-flight /orders request.             *)
(***************************************************************************)
EXTENDS Integers, Sequences, FiniteSets

\* ---------------------------------------------------------------- bounds
\* number of /orders requests accepted over the life of the process
MaxReqs == 2
\* order identifiers are drawn from 0..MaxOrderID (rand.Intn in the code)
MaxOrderID == 1
\* number of gauge updates the background job may perform
MaxGaugeAdds == 1

Variants == {"main_go", "part_000", "part_001"}
Reqs == 1..MaxReqs
OrderIDs == 0..MaxOrderID
NoOrder == 0 - 1

\* http.StatusOK / http.StatusInternalServerError
StatusOK == 200
StatusInternalServerError == 500
NoStatus == 0
Codes == {StatusOK, StatusInternalServerError}

\* outcomes of client.Do: a response and no error; an error and a nil
\* response (transport failure); an error and a non-nil response (the
\* redirect policy failed)
CallOutcomes == {"ok", "errNilResponse", "errWithResponse"}

\* span operation names
RootSpan == "creating order"
ValidateSpan == "1_validating_order_data"
InsertSpan == "2_inserting_order_data_to_db"
InventorySpan == "3_http_get_inventory_service_check_stock"

VARIABLES
  variant,        \* which program is running
  mainPc,         \* position of func main
  tracer,         \* "unset" | "ok" | "nil" : result of InitTracer
  logConn,        \* TRUE once net.Dial to the log sink succeeded
  notifyInstalled,\* signal.Notify(sigCH, SIGINT, SIGTERM) was called
  sigCH,          \* number of signals buffered in sigCH (capacity 1)
  routes,         \* paths registered on the default mux
  srv,            \* "unstarted" | "starting" | "listening" | "failed" | "closed"
  inShutdown,     \* server.Shutdown has been called
  shutdownErr,    \* "unset" | "nil" | "deadline" : result of server.Shutdown
  ctxDone,        \* the job's context is cancelled
  jobPc,          \* "none" | "check" | "update" | "sleep" | "exited"
  gaugeAdds,      \* number of metricGauge Add calls
  metricCounter,  \* code -> value of http_request_count{POST,/orders,code}
  summaryObs,     \* observations received by metricSummary
  histogramObs,   \* observations received by metricsHistogram
  req,            \* per-request state of the /orders handler
  hist            \* history of lifecycle events (used only by properties)

vars == <<variant, mainPc, tracer, logConn, notifyInstalled, sigCH, routes,
          srv, inShutdown, shutdownErr, ctxDone, jobPc, gaugeAdds,
          metricCounter, summaryObs, histogramObs, req, hist>>

mainVars == <<mainPc, tracer, logConn, notifyInstalled, sigCH, routes, srv,
              inShutdown, shutdownErr>>
jobVars == <<jobPc, gaugeAdds>>
metricVars == <<metricCounter, summaryObs, histogramObs>>

\* ------------------------------------------------------------ main order
\* The statements of func main in program order, per variant.

\* faulty order: part_001 cancelling the job only after server.Shutdown
ProgramOrderCancelAfterDrain(v) ==
  IF v = "part_001"
  THEN <<"initTracer", "deferCloser", "dial", "notify", "launchJob",
         "register", "goListen", "waitSignal", "shutdown", "drain", "cancel",
         "grace", "return", "exited">>
  ELSE IF v = "part_000"
  THEN <<"notify", "launchJob", "register", "listen", "serve", "return",
         "exited">>
  ELSE <<"register", "listen", "serve", "return", "exited">>

\* the order of the source
ProgramOrder(v) ==
  IF v = "part_001"
  THEN <<"initTracer", "deferCloser", "dial", "notify", "launchJob",
         "register", "goListen", "waitSignal", "cancel", "shutdown", "drain",
         "grace", "return", "exited">>
  ELSE IF v = "part_000"
  THEN <<"notify", "launchJob", "register", "listen", "serve", "return",
         "exited">>
  ELSE <<"register", "listen", "serve", "return", "exited">>

IndexOf(s, x) == CHOOSE i \in 1..Len(s) : s[i] = x

\* the statement after pc in the running variant
Succ(pc) == ProgramOrder(variant)[IndexOf(ProgramOrder(variant), pc) + 1]

\* the process has terminated: main returned, the default signal action
\* killed it, log.Fatalf exited, or main panicked
Terminated == {"exited", "killed", "fatal", "panicked"}
Alive == mainPc \notin Terminated

\* the listener is open and main is blocked waiting (for the signal in
\* part_001, inside ListenAndServe otherwise)
Serving == srv = "listening" /\ mainPc \in {"waitSignal", "serve"}

\* ------------------------------------------------------------- requests
NewReq == [pc |-> "idle", orderID |-> NoOrder, call |-> "none",
           status |-> NoStatus, body |-> <<>>, log |-> <<>>,
           incs |-> [c \in Codes |-> 0], sumObs |-> 0, histObs |-> 0,
           errLogged |-> FALSE, atSignal |-> FALSE, late |-> FALSE]

\* a handler goroutine is running for request r
InFlight(r) == req[r].pc \notin {"idle", "done", "aborted"}

Init ==
  /\ variant \in Variants
  /\ mainPc = ProgramOrder(variant)[1]
  /\ tracer = "unset"
  /\ logConn = FALSE
  /\ notifyInstalled = FALSE
  /\ sigCH = 0
  /\ routes = {}
  /\ srv = "unstarted"
  /\ inShutdown = FALSE
  /\ shutdownErr = "unset"
  /\ ctxDone = FALSE
  /\ jobPc = "none"
  /\ gaugeAdds = 0
  /\ metricCounter = [c \in Codes |-> 0]
  /\ summaryObs = 0
  /\ histogramObs = 0
  /\ req = [r \in Reqs |-> NewReq]
  /\ hist = [cancelFired |-> 0, drainStarts |-> 0, drainEnds |-> 0,
             graceSleeps |-> 0, sigServing |-> FALSE, sigReceived |-> FALSE,
             tracerFailed |-> FALSE, dialFailed |-> FALSE,
             addsAfterCancel |-> 0]

\* ------------------------------------------------------------ main steps
\* part_001 line 96: InitTracer; cfg.NewTracer either succeeds or returns
\* (nil, nil, err), and the error is only logged
InitTracer ==
  /\ mainPc = "initTracer"
  /\ \E ok \in BOOLEAN :
       /\ tracer' = IF ok THEN "ok" ELSE "nil"
       /\ hist' = [hist EXCEPT !.tracerFailed = ~ok]
  /\ mainPc' = Succ(mainPc)
  /\ UNCHANGED <<variant, logConn, notifyInstalled, sigCH, routes, srv,
                 inShutdown, shutdownErr, ctxDone, jobVars, metricVars, req>>

\* where main goes after `defer closer.Close()`: evaluating the method value
\* of a nil io.Closer panics at the defer statement
AfterDeferCloser(t) == IF t = "nil" THEN "panicked" ELSE Succ("deferCloser")

\* part_001 line 97
DeferCloser ==
  /\ mainPc = "deferCloser"
  /\ mainPc' = AfterDeferCloser(tracer)
  /\ UNCHANGED <<variant, tracer, logConn, notifyInstalled, sigCH, routes,
                 srv, inShutdown, shutdownErr, ctxDone, jobVars, metricVars,
                 req, hist>>

\* faulty: the dial error only logged, main goes on
AfterDialLogOnly(ok) == Succ("dial")

\* where main goes after net.Dial: log.Fatalf on error
AfterDial(ok) == IF ok THEN Succ("dial") ELSE "fatal"

\* part_001 lines 99-106
Dial ==
  /\ mainPc = "dial"
  /\ \E ok \in BOOLEAN :
       /\ logConn' = ok
       /\ hist' = [hist EXCEPT !.dialFailed = ~ok]
       /\ mainPc' = AfterDial(ok)
  /\ UNCHANGED <<variant, tracer, notifyInstalled, sigCH, routes, srv,
                 inShutdown, shutdownErr, ctxDone, jobVars, metricVars, req>>

\* context.WithCancel, make(chan os.Signal, 1), signal.Notify
Notify ==
  /\ mainPc = "notify"
  /\ notifyInstalled' = TRUE
  /\ mainPc' = Succ(mainPc)
  /\ UNCHANGED <<variant, tracer, logConn, sigCH, routes, srv, inShutdown,
                 shutdownErr, ctxDone, jobVars, metricVars, req, hist>>

\* go func(ctx) { for { select ... } }(ctx)
LaunchJob ==
  /\ mainPc = "launchJob"
  /\ jobPc' = "check"
  /\ mainPc' = Succ(mainPc)
  /\ UNCHANGED <<variant, tracer, logConn, notifyInstalled, sigCH, routes,
                 srv, inShutdown, shutdownErr, ctxDone, gaugeAdds,
                 metricVars, req, hist>>

RoutesOf(v) ==
  IF v = "part_001" THEN {"/metrics", "/ping", "/orders", "/internal/orders"}
  ELSE {"/metrics", "/ping", "/orders"}

\* http.Handle / http.HandleFunc
Register ==
  /\ mainPc = "register"
  /\ routes' = RoutesOf(variant)
  /\ mainPc' = Succ(mainPc)
  /\ UNCHANGED <<variant, tracer, logConn, notifyInstalled, sigCH, srv,
                 inShutdown, shutdownErr, ctxDone, jobVars, metricVars, req,
                 hist>>

\* main_go, part_000: main itself calls http.ListenAndServe; it blocks while
\* the listener is open and returns at once when listening fails
Listen ==
  /\ mainPc = "listen"
  /\ \E ok \in BOOLEAN :
       /\ srv' = IF ok THEN "listening" ELSE "failed"
       /\ mainPc' = IF ok THEN Succ("listen") ELSE Succ(Succ("listen"))
  /\ UNCHANGED <<variant, tracer, logConn, notifyInstalled, sigCH, routes,
                 inShutdown, shutdownErr, ctxDone, jobVars, metricVars, req,
                 hist>>

\* part_001 lines 239-244: the server runs in its own goroutine
GoListen ==
  /\ mainPc = "goListen"
  /\ srv' = "starting"
  /\ mainPc' = Succ(mainPc)
  /\ UNCHANGED <<variant, tracer, logConn, notifyInstalled, sigCH, routes,
                 inShutdown, shutdownErr, ctxDone, jobVars, metricVars, req,
                 hist>>

\* server.ListenAndServe in the goroutine: ErrServerClosed after Shutdown,
\* otherwise the listener opens or fails (the error is logged)
ServerListen ==
  /\ Alive
  /\ srv = "starting"
  /\ IF inShutdown THEN srv' = "closed"
     ELSE \E ok \in BOOLEAN : srv' = IF ok THEN "listening" ELSE "failed"
  /\ UNCHANGED <<variant, mainPc, tracer, logConn, notifyInstalled, sigCH,
                 routes, inShutdown, shutdownErr, ctxDone, jobVars,
                 metricVars, req, hist>>

\* <-sigCH
WaitSignal ==
  /\ mainPc = "waitSignal"
  /\ sigCH > 0
  /\ sigCH' = sigCH - 1
  /\ hist' = [hist EXCEPT !.sigReceived = TRUE]
  /\ mainPc' = Succ(mainPc)
  /\ UNCHANGED <<variant, tracer, logConn, notifyInstalled, routes, srv,
                 inShutdown, shutdownErr, ctxDone, jobVars, metricVars, req>>

\* the CancelFunc: the first call closes ctx.Done(), later calls do nothing
FireCancel ==
  /\ ctxDone' = TRUE
  /\ hist' = [hist EXCEPT !.cancelFired = @ + (IF ctxDone THEN 0 ELSE 1)]

\* part_001 line 249: cancelSimulationJob()
Cancel ==
  /\ mainPc = "cancel"
  /\ FireCancel
  /\ mainPc' = Succ(mainPc)
  /\ UNCHANGED <<variant, tracer, logConn, notifyInstalled, sigCH, routes,
                 srv, inShutdown, shutdownErr, jobVars, metricVars, req>>

\* part_001 lines 251-254: server.Shutdown sets inShutdown and closes the
\* listener, then waits for the active connections
ShutdownBegin ==
  /\ mainPc = "shutdown"
  /\ inShutdown' = TRUE
  /\ srv' = IF srv = "listening" THEN "closed" ELSE srv
  /\ hist' = [hist EXCEPT !.drainStarts = @ + 1]
  /\ mainPc' = Succ(mainPc)
  /\ UNCHANGED <<variant, tracer, logConn, notifyInstalled, sigCH, routes,
                 shutdownErr, ctxDone, jobVars, metricVars, req>>

\* what server.Shutdown waits for before it returns nil
Drained == \A r \in Reqs : ~InFlight(r)

\* server.Shutdown returns nil: no connection is active any more
DrainDone ==
  /\ mainPc = "drain"
  /\ Drained
  /\ shutdownErr' = "nil"
  /\ hist' = [hist EXCEPT !.drainEnds = @ + 1]
  /\ mainPc' = Succ(mainPc)
  /\ UNCHANGED <<variant, tracer, logConn, notifyInstalled, sigCH, routes,
                 srv, inShutdown, ctxDone, jobVars, metricVars, req>>

\* server.Shutdown returns context.DeadlineExceeded: the 5 s elapsed while a
\* handler was still running; the error is logged and main goes on
DrainTimeout ==
  /\ mainPc = "drain"
  /\ \E r \in Reqs : InFlight(r)
  /\ shutdownErr' = "deadline"
  /\ req' = [r \in Reqs |->
               IF InFlight(r) THEN [req[r] EXCEPT !.late = TRUE] ELSE req[r]]
  /\ hist' = [hist EXCEPT !.drainEnds = @ + 1]
  /\ mainPc' = Succ(mainPc)
  /\ UNCHANGED <<variant, tracer, logConn, notifyInstalled, sigCH, routes,
                 srv, inShutdown, ctxDone, jobVars, metricVars>>

\* part_001 line 262: time.Sleep(2 * time.Second)
GraceSleep ==
  /\ mainPc = "grace"
  /\ hist' = [hist EXCEPT !.graceSleeps = @ + 1]
  /\ mainPc' = Succ(mainPc)
  /\ UNCHANGED <<variant, tracer, logConn, notifyInstalled, sigCH, routes,
                 srv, inShutdown, shutdownErr, ctxDone, jobVars, metricVars,
                 req>>

\* main returns: the deferred calls run (part_001: shutdownCancel,
\* cancelSimulationJob, conn.Close, closer.Close; part_000:
\* cancelSimulationJob; main_go: none) and the process exits, which ends
\* every goroutine
Return ==
  /\ mainPc = "return"
  /\ IF variant = "main_go" THEN UNCHANGED <<ctxDone, hist>> ELSE FireCancel
  /\ logConn' = FALSE
  /\ mainPc' = Succ(mainPc)
  /\ UNCHANGED <<variant, tracer, notifyInstalled, sigCH, routes, srv,
                 inShutdown, shutdownErr, jobVars, metricVars, req>>

\* SIGINT or SIGTERM is delivered: with signal.Notify installed it is sent
\* without blocking to sigCH (and dropped when the buffer is full), otherwise
\* the default action kills the process
Signal ==
  /\ Alive
  /\ IF notifyInstalled
     THEN /\ sigCH = 0
          /\ sigCH' = 1
          /\ hist' = [hist EXCEPT !.sigServing = @ \/ Serving]
          /\ req' = [r \in Reqs |->
                       IF InFlight(r) /\ Serving
                       THEN [req[r] EXCEPT !.atSignal = TRUE] ELSE req[r]]
          /\ UNCHANGED mainPc
     ELSE /\ mainPc' = "killed"
          /\ UNCHANGED <<sigCH, hist, req>>
  /\ UNCHANGED <<variant, tracer, logConn, notifyInstalled, routes, srv,
                 inShutdown, shutdownErr, ctxDone, jobVars, metricVars>>

\* ------------------------------------------------------- background job
\* faulty: a loop that never looks at ctx.Done()
JobSelectIgnoresDone(done) == "update"

\* the select of the loop: the Done case when the context is cancelled,
\* the default case otherwise
JobSelect(done) == IF done THEN "exited" ELSE "update"

\* select { case <-ctx.Done(): return  default: ... }
JobCheck ==
  /\ Alive
  /\ jobPc = "check"
  /\ jobPc' = JobSelect(ctxDone)
  /\ UNCHANGED <<variant, mainVars, ctxDone, gaugeAdds, metricVars, req, hist>>

\* metricGauge.WithLabelValues("ID", "JAK").Add(...)
JobUpdate ==
  /\ Alive
  /\ jobPc = "update"
  /\ gaugeAdds < MaxGaugeAdds
  /\ gaugeAdds' = gaugeAdds + 1
  /\ hist' = [hist EXCEPT !.addsAfterCancel = @ + (IF ctxDone THEN 1 ELSE 0)]
  /\ jobPc' = "sleep"
  /\ UNCHANGED <<variant, mainVars, ctxDone, metricVars, req>>

\* time.Sleep returns; the sleep does not watch ctx.Done()
JobWake ==
  /\ Alive
  /\ jobPc = "sleep"
  /\ jobPc' = "check"
  /\ UNCHANGED <<variant, mainVars, ctxDone, gaugeAdds, metricVars, req, hist>>

\* ------------------------------------------------------ /orders handler
Start(log, span) == Append(log, <<"start", span>>)
Finish(log, span) == Append(log, <<"finish", span>>)

\* a deferred span.Finish() runs when its function returns
DeferredFinish(log, span) == Finish(log, span)

\* faulty: span.Finish() called at the end of the function instead of
\* deferred, so a panic skips it
PanicUnwindSkipsFinish(log, span) == log

\* a deferred span.Finish() also runs when a panic unwinds its function
PanicUnwind(log, span) == Finish(log, span)

\* OrderID%2 == 0 selects the success branch
StatusFor(id) == IF id % 2 = 0 THEN StatusOK ELSE StatusInternalServerError

\* what the handler adds to the request counter: part_001 calls Inc() on the
\* labelled counter, the two earlier variants only look the counter up
CounterDelta(v) == IF v = "part_001" THEN 1 ELSE 0

\* the message of the error object written on the failure branch
ErrorMessage(v) ==
  IF v = "part_001" THEN "failure, this is simulated by devs"
  ELSE "failure, this is simulated by test devs"

\* ResponseData as encoded for order id and status st
BodyFor(v, id, st) ==
  [order_id |-> id,
   error |-> IF st = StatusOK THEN "" ELSE ErrorMessage(v)]

\* The handler goroutine is modelled from one blocking point (a sleep, the
\* outbound call) to the next; the statements between two blocking points do
\* not block and touch only the request's own state and atomic instruments.

\* the server accepts a connection and runs the handler up to its first
\* sleep; request numbers are handed out in order of arrival.
\* part_001 lines 159-167: root span (Finish deferred), validation span.
\* main_go lines 35-36, part_000 lines 66-67: time.Sleep(450 ms)
Accept(r) ==
  /\ Alive
  /\ srv = "listening"
  /\ "/orders" \in routes
  /\ req[r].pc = "idle"
  /\ \A q \in Reqs : q < r => req[q].pc # "idle"
  /\ req' = [req EXCEPT
               ![r].log = IF variant = "part_001"
                          THEN Start(Start(@, RootSpan), ValidateSpan) ELSE @,
               ![r].pc = IF variant = "part_001" THEN "validating"
                         ELSE "sleep"]
  /\ UNCHANGED <<variant, mainVars, ctxDone, jobVars, metricVars, hist>>

\* part_001 lines 168-171, 151-154: subSpan1.Finish(); insertToDB starts its
\* span (Finish deferred) and sleeps
Validated(r) ==
  /\ Alive
  /\ req[r].pc = "validating"
  /\ req' = [req EXCEPT
               ![r].log = Start(Finish(@, ValidateSpan), InsertSpan),
               ![r].pc = "inserting"]
  /\ UNCHANGED <<variant, mainVars, ctxDone, jobVars, metricVars, hist>>

\* part_001 lines 155-156, 174, 294-303: insertToDB logs and returns;
\* callInventoryService starts its span (Finish deferred), injects the span
\* context and issues the GET
Inserted(r) ==
  /\ Alive
  /\ req[r].pc = "inserting"
  /\ req' = [req EXCEPT
               ![r].log = Start(DeferredFinish(@, InsertSpan), InventorySpan),
               ![r].pc = "calling"]
  /\ UNCHANGED <<variant, mainVars, ctxDone, jobVars, metricVars, hist>>

\* part_001 lines 303-308: client.Do returns; an error is logged. Then
\* `defer res.Body.Close()` reads res.Body: with a nil res that is a nil
\* pointer dereference. The panic unwinds callInventoryService and the
\* handler (their deferred Finish calls run); net/http recovers it, logs it
\* and closes the connection without writing anything.
\* Otherwise (lines 176-200, 206) the handler draws the order id, takes the
\* branch of its parity and sleeps.
CallReturn(r) ==
  /\ Alive
  /\ req[r].pc = "calling"
  /\ \E out \in CallOutcomes :
       IF out = "errNilResponse"
       THEN req' = [req EXCEPT
                      ![r].call = out,
                      ![r].errLogged = TRUE,
                      ![r].log = PanicUnwind(PanicUnwind(@, InventorySpan),
                                             RootSpan),
                      ![r].pc = "aborted"]
       ELSE \E id \in OrderIDs :
              req' = [req EXCEPT
                        ![r].call = out,
                        ![r].errLogged = (out # "ok"),
                        ![r].log = DeferredFinish(@, InventorySpan),
                        ![r].orderID = id,
                        ![r].pc = "branch"]
  /\ UNCHANGED <<variant, mainVars, ctxDone, jobVars, metricVars, hist>>

\* the counter statement, w.WriteHeader and json.NewEncoder(w).Encode of
\* the branch taken
Answer(q, v, id) ==
  LET c == StatusFor(id)
      d == CounterDelta(v) IN
    [q EXCEPT !.orderID = id,
              !.incs[c] = @ + d,
              !.errLogged = @ \/ (v = "part_001" /\ c # StatusOK),
              !.status = c,
              !.body = BodyFor(v, id, c),
              !.pc = "done"]

\* main_go lines 37-60, part_000 lines 68-91: after the sleep, the order id
\* is drawn and the branch of its parity answers; the handler returns
Respond(r) ==
  /\ Alive
  /\ req[r].pc = "sleep"
  /\ \E id \in OrderIDs :
       /\ req' = [req EXCEPT ![r] = Answer(@, variant, id)]
       /\ metricCounter' = [metricCounter EXCEPT
                              ![StatusFor(id)] = @ + CounterDelta(variant)]
  /\ UNCHANGED <<variant, mainVars, ctxDone, jobVars, summaryObs,
                 histogramObs, hist>>

\* what each of metricSummary and metricsHistogram receives from a request
\* that reaches lines 222-224
ObserveDelta == 1

\* part_001 lines 201-204 or 208-219, then 222-225: after the branch's
\* sleep the handler answers, observes the duration in the summary and in
\* the histogram and returns; the deferred root span.Finish() runs
RespondTraced(r) ==
  /\ Alive
  /\ req[r].pc = "branch"
  /\ req' = [req EXCEPT
               ![r] = [Answer(@, variant, req[r].orderID) EXCEPT
                         !.sumObs = @ + ObserveDelta,
                         !.histObs = @ + ObserveDelta,
                         !.log = DeferredFinish(@, RootSpan)]]
  /\ metricCounter' = [metricCounter EXCEPT
                         ![StatusFor(req[r].orderID)] =
                            @ + CounterDelta(variant)]
  /\ summaryObs' = summaryObs + ObserveDelta
  /\ histogramObs' = histogramObs + ObserveDelta
  /\ UNCHANGED <<variant, mainVars, ctxDone, jobVars, hist>>

\* ---------------------------------------------------------- specification
MainStep ==
  \/ InitTracer \/ DeferCloser \/ Dial \/ Notify \/ LaunchJob \/ Register
  \/ Listen \/ GoListen \/ WaitSignal \/ Cancel \/ ShutdownBegin
  \/ DrainDone \/ DrainTimeout \/ GraceSleep \/ Return

JobStep == JobCheck \/ JobUpdate \/ JobWake

HandlerStep(r) ==
  \/ Validated(r) \/ Inserted(r) \/ CallReturn(r) \/ Respond(r)
  \/ RespondTraced(r)

Next ==
  \/ InitTracer \/ DeferCloser \/ Dial \/ Notify \/ LaunchJob \/ Register
  \/ Listen \/ GoListen \/ ServerListen \/ WaitSignal \/ Cancel
  \/ ShutdownBegin \/ DrainDone \/ DrainTimeout \/ GraceSleep \/ Return
  \/ Signal
  \/ JobCheck \/ JobUpdate \/ JobWake
  \/ \E r \in Reqs :
       \/ Accept(r) \/ Validated(r) \/ Inserted(r) \/ CallReturn(r)
       \/ Respond(r) \/ RespondTraced(r)

Spec == Init /\ [][Next]_vars

\* the Go scheduler runs every runnable goroutine: main, the job and the
\* handlers each take their next step when one is enabled
FairSpec ==
  /\ Spec
  /\ WF_vars(MainStep)
  /\ WF_vars(JobStep)
  /\ \A r \in Reqs : WF_vars(HandlerStep(r))

\* The job goroutine reads ctxDone and whether the process is alive, and
\* writes only jobPc, gaugeAdds and hist.addsAfterCancel; the handlers and
\* the drain read and write none of these. The two specifications below
\* leave one of the two groups of goroutines unscheduled.

\* the service with the job goroutine never scheduled
NextOrders ==
  \/ InitTracer \/ DeferCloser \/ Dial \/ Notify \/ LaunchJob \/ Register
  \/ Listen \/ GoListen \/ ServerListen \/ WaitSignal \/ Cancel
  \/ ShutdownBegin \/ DrainDone \/ DrainTimeout \/ GraceSleep \/ Return
  \/ Signal
  \/ \E r \in Reqs :
       \/ Accept(r) \/ Validated(r) \/ Inserted(r) \/ CallReturn(r)
       \/ Respond(r) \/ RespondTraced(r)

SpecOrders == Init /\ [][NextOrders]_vars

\* the service when no client sends a request
NextJob ==
  \/ InitTracer \/ DeferCloser \/ Dial \/ Notify \/ LaunchJob \/ Register
  \/ Listen \/ GoListen \/ ServerListen \/ WaitSignal \/ Cancel
  \/ ShutdownBegin \/ DrainDone \/ GraceSleep \/ Return \/ Signal
  \/ JobCheck \/ JobUpdate \/ JobWake

SpecJob == Init /\ [][NextJob]_vars

TypeOK ==
  /\ variant \in Variants
  /\ mainPc \in Terminated \cup
       {ProgramOrder(variant)[i] : i \in 1..Len(ProgramOrder(variant))}
  /\ sigCH \in 0..1
  /\ gaugeAdds \in 0..MaxGaugeAdds
  /\ jobPc \in {"none", "check", "update", "sleep", "exited"}
  /\ \A r \in Reqs :
       /\ req[r].status \in Codes \cup {NoStatus}
       /\ req[r].orderID \in OrderIDs \cup {NoOrder}
  /\ \A c \in Codes : metricCounter[c] \in 0..MaxReqs

\* ------------------------------------------------------------ properties
Finished(r) == req[r].pc \in {"done", "aborted"}

\* C1: every /orders request that ended has status 200 or 500, 200 exactly
\* when its order identifier is even and 500 exactly when it is odd; none
\* ends without a status.
C1_StatusIffParity ==
  \A r \in Reqs :
    Finished(r) =>
      /\ req[r].status \in Codes
      /\ req[r].orderID \in OrderIDs
      /\ (req[r].status = StatusOK) <=> (req[r].orderID % 2 = 0)
      /\ (req[r].status = StatusInternalServerError) <=>
           (req[r].orderID % 2 = 1)

\* C2: in every variant, a completed /orders request has incremented exactly
\* one of the counters {POST,/orders,200} and {POST,/orders,500}, by exactly
\* one, and it is the counter of the status written to the client.
C2_OneCounterPerRequest ==
  \A r \in Reqs :
    req[r].pc = "done" =>
      /\ req[r].incs[StatusOK] + req[r].incs[StatusInternalServerError] = 1
      /\ req[r].incs[req[r].status] = 1

\* C3: whatever its outcome (success, simulated failure, failing downstream
\* call), a finished /orders request of part_001 has been observed exactly
\* once by the summary and exactly once by the histogram.
C3_OneObservationEach ==
  \A r \in Reqs :
    (variant = "part_001" /\ Finished(r)) =>
      req[r].sumObs = 1 /\ req[r].histObs = 1

\* C4: when the GET to the inventory service returned an error, the error
\* is logged and the request still ends with the well-formed 200 or 500
\* response that the parity of its order identifier selects.
C4_DownstreamErrorNotEscalated ==
  \A r \in Reqs :
    (req[r].call \in {"errNilResponse", "errWithResponse"} /\ Finished(r)) =>
      /\ req[r].errLogged
      /\ req[r].orderID \in OrderIDs
      /\ req[r].status = StatusFor(req[r].orderID)
      /\ req[r].body = BodyFor(variant, req[r].orderID, req[r].status)

\* C5: in every variant that installs a signal handler, a SIGINT or SIGTERM
\* delivered while the process is Serving leads to the process having
\* stopped.
C5_SignalLeadsToStopped == hist.sigServing ~> (mainPc \in Terminated)

\* C6: a request that was in flight when the termination signal arrived and
\* whose remaining handling time was within the shutdown deadline has had
\* its response written when the process has exited.
C6_InFlightRequestAnswered ==
  \A r \in Reqs :
    (mainPc = "exited" /\ req[r].atSignal /\ ~req[r].late) =>
      req[r].pc = "done" /\ req[r].status \in Codes

\* the positions of the events of one kind in a log, and their spans
EventsAt(log, kind) == {i \in 1..Len(log) : log[i][1] = kind}
SpansAt(log, idx) == {log[i][2] : i \in idx}

\* a log nests LIFO when every finish is of the span started last among
\* the spans still open; stack holds the open spans, oldest first
RECURSIVE Nested(_, _)
Nested(log, stack) ==
  IF log = <<>> THEN TRUE
  ELSE LET e == Head(log) IN
         IF e[1] = "start"
         THEN Nested(Tail(log), Append(stack, e[2]))
         ELSE /\ stack # <<>>
              /\ stack[Len(stack)] = e[2]
              /\ Nested(Tail(log), SubSeq(stack, 1, Len(stack) - 1))

AllSpans == {RootSpan, ValidateSpan, InsertSpan, InventorySpan}

\* C7: the spans of a request nest LIFO, none is started or finished more
\* than once, and when the handler has exited - by returning or by the
\* panic of the downstream step - each of its four spans was started and
\* finished exactly once.
C7_SpansFinishedOnceLIFO ==
  \A r \in Reqs :
    LET log == req[r].log
        starts == EventsAt(log, "start")
        finishes == EventsAt(log, "finish") IN
      /\ Nested(log, <<>>)
      /\ Cardinality(SpansAt(log, starts)) = Cardinality(starts)
      /\ Cardinality(SpansAt(log, finishes)) = Cardinality(finishes)
      /\ SpansAt(log, finishes) \subseteq SpansAt(log, starts)
      /\ (variant = "part_001" /\ Finished(r)) =>
           /\ SpansAt(log, starts) = AllSpans
           /\ SpansAt(log, finishes) = AllSpans

\* a handler left by the panic of the downstream step, all spans finished
C7_Witness ==
  \E r \in Reqs : req[r].pc = "aborted" /\ Len(req[r].log) = 8

\* C8: after the termination signal is received, the cancellation fires,
\* then the drain starts and ends, then the grace sleep runs, then the
\* process stops, each once: the drain never starts before the cancellation
\* has fired, the grace sleep never before the drain has ended, and the
\* process does not stop before the grace sleep.
C8_ShutdownOrder ==
  /\ hist.cancelFired <= 1 /\ hist.drainStarts <= 1
  /\ hist.drainEnds <= 1 /\ hist.graceSleeps <= 1
  /\ hist.drainStarts >= 1 => (ctxDone /\ hist.cancelFired = 1)
  /\ hist.drainEnds <= hist.drainStarts
  /\ hist.graceSleeps >= 1 => hist.drainEnds = 1
  /\ hist.sigReceived =>
       /\ mainPc \in Terminated => mainPc = "exited"
       /\ mainPc = "exited" =>
            /\ hist.cancelFired = 1 /\ hist.drainStarts = 1
            /\ hist.drainEnds = 1 /\ hist.graceSleeps = 1

\* the process has gone through a whole shutdown whose drain timed out
C8_Witness ==
  hist.sigReceived /\ mainPc = "exited" /\ shutdownErr = "deadline"

\* C9 as stated: once the cancellation has fired, no gauge update follows.
C9_NoUpdateAfterCancel == hist.addsAfterCancel = 0

\* C9 as amended: once the cancellation has fired, at most one gauge update
\* follows, namely the one of an iteration whose check had already passed;
\* the loop does not pass its check again.
C9_AtMostOneUpdateAfterCancel ==
  /\ hist.addsAfterCancel <= 1
  /\ (ctxDone /\ jobPc = "update") => hist.addsAfterCancel = 0
  /\ hist.addsAfterCancel = 1 => (ctxDone /\ jobPc \in {"sleep", "check", "exited"})

\* the job updated the gauge once after the cancellation and then exited
C9_Witness == hist.addsAfterCancel = 1 /\ jobPc = "exited"

\* C10: when InitTracer failed or the log sink could not be dialled, the
\* job is never launched, /orders is never registered and the process never
\* serves.
C10_StartupAborted ==
  (hist.tracerFailed \/ hist.dialFailed) =>
    /\ jobPc = "none"
    /\ "/orders" \notin routes
    /\ srv = "unstarted"
    /\ ~Serving
    /\ mainPc \in {"deferCloser", "panicked", "fatal", "killed"}

\* the dial failed and log.Fatalf ended the process
C10_Witness == hist.dialFailed /\ mainPc = "fatal"
====
